---- MODULE Spec2Model ----
(***************************************************************************)
(* T-Pulse front end: the two consumers of the sentiment feed.             *)
(*   - UsaMap (components/UsaMap.tsx): a socket opened after the topology  *)
(*     load of each activation, a 60 s rolling point buffer, a canvas      *)
(*     heatmap redrawn on ingest and on zoom.                              *)
(*   - DashboardLayout (components/DashboardLayout.tsx): a socket with a   *)
(*     3 s reconnect timer, a running sum/count, a score and a comment     *)
(*     feed.                                                               *)
(*   - GlobeVisualization (components/GlobeVisualization.tsx): the view    *)
(*     'globe' or 'usa', switched by the camera distance with hysteresis,  *)
(*     the camera tween toward targetDistance and the reset flag.          *)
(* Time is in whole seconds (Date.now()/1000 in the map); camera distances *)
(* are in ten-thousandths of a scene unit.                                 *)
(***************************************************************************)
EXTENDS Integers, Sequences, FiniteSets, TLC

\* ---------------------------------------------------------------- bounds
MaxTime == 61
MaxBatch == 3
MaxPoints == 2
MaxMapSocks == 2
MaxInst == 2
MaxAttempts == 3
MaxCount == 2
MaxFeed == 52
MaxZooms == 2

\* ------------------------------------------------------ program constants
\* UsaMap.tsx:247  const cutoff = now - 60
WindowSeconds == 60
\* DashboardLayout.tsx:113  setTimeout(connect, 3000)
ReconnectDelay == 3
\* DashboardLayout.tsx:79  newComments.slice(-50)
MaxComments == 50

\* ------------------------------------------------------------ JSON values
\* A JSON value as the handlers see it: only typeof and truthiness matter.
Num(n) == [t |-> "num", n |-> n]
Str(n) == [t |-> "str", n |-> n]      \* n = length of the string
Undef == [t |-> "undef", n |-> 0]     \* absent property

\* JSON.parse turns a numeral beyond the double range (1e999) into Infinity,
\* a value whose typeof is 'number'.  It stands above every number the model
\* computes with.
Infinity == 1000

\* typeof v === 'number'
TypeofNumber(v) == v.t = "num"

\* if (v) ...   (JavaScript truthiness)
Truthy(v) ==
    CASE v.t = "num" -> v.n # 0
      [] v.t = "str" -> v.n > 0
      [] OTHER -> FALSE

\* Elements of msg.data.  kind "null" is the JSON null: reading a property
\* of it throws a TypeError.
Obj(lat, lon, s, text) ==
    [kind |-> "object", lat |-> lat, lon |-> lon, sentiment_score |-> s, text |-> text]
NullElem == [kind |-> "null", lat |-> Undef, lon |-> Undef, sentiment_score |-> Undef, text |-> Undef]

\* The records the feed sends in this model.
RecNY == Obj(Num(40), Num(-74), Num(1), Str(2))         \* New York, satisfied
RecLA == Obj(Num(34), Num(-118), Num(-1), Undef)        \* Los Angeles, no text
RecNoLat == Obj(Undef, Num(-74), Num(1), Str(2))        \* lat missing
RecBadScore == Obj(Num(40), Num(-74), Str(3), Str(2))   \* sentiment_score a string
RecBadText == Obj(Num(40), Num(-74), Num(1), Num(7))    \* text a number
RecInf == Obj(Num(Infinity), Num(-74), Num(1), Str(2))  \* "lat": 1e999

\* The map reads lat, lon and sentiment_score only, the dashboard
\* sentiment_score and text only.
MapElements == { RecNY, RecLA, RecNoLat, RecInf, NullElem }
DashElements == { RecNY, RecLA, RecNoLat, RecBadScore, RecBadText, NullElem }

\* The batches over S of at most n records, no record twice in a batch.
RECURSIVE BatchesOver(_, _)
BatchesOver(S, n) ==
    IF n = 0 THEN { <<>> }
    ELSE LET shorter == BatchesOver(S, n - 1)
             longest == { q \in shorter : Len(q) = n - 1 }
         IN shorter \cup
            UNION { { Append(q, e) : e \in S \ { q[j] : j \in 1..Len(q) } } : q \in longest }

\* Text frames: what JSON.parse makes of ev.data.
Frame(json, type, isArray, data) ==
    [json |-> json, type |-> type, isArray |-> isArray, data |-> data]
OtherFrames ==
    { Frame("invalid", "other", FALSE, <<>>),      \* not JSON
      Frame("invalid", "tweets", TRUE, <<RecNY>>), \* a tweets frame cut short
      Frame("null", "other", FALSE, <<>>),         \* the text null
      Frame("scalar", "other", FALSE, <<>>),       \* the text 7
      Frame("object", "other", TRUE, <<>>),        \* {type:"ping", data:[]}
      Frame("object", "other", TRUE, <<RecNY>>),   \* {type:"ping", data:[record]}
      Frame("object", "tweets", FALSE, <<>>) }     \* {type:"tweets", data:{}}
MapFrames ==
    OtherFrames \cup { Frame("object", "tweets", TRUE, b) : b \in BatchesOver(MapElements, MaxBatch) }
DashFrames ==
    OtherFrames \cup { Frame("object", "tweets", TRUE, b) : b \in BatchesOver(DashElements, MaxBatch) }

\* A long feed: its n-th record carries a text of n characters, so that the
\* comments it leaves are told apart.  Batches of one or two such records,
\* and a batch cut short by a null element.
NumberedRecord(n) == Obj(Num(40), Num(-74), Num(1), Str(n))
LongFeedFrames(n) ==
    OtherFrames \cup
    { Frame("object", "tweets", TRUE, b) :
        b \in { <<NumberedRecord(n + 1)>>,
                <<NumberedRecord(n + 1), NumberedRecord(n + 2)>>,
                <<NumberedRecord(n + 1), NullElem>> } }

\* The frames whose batch has at most n records.
MapFramesUpTo(n) == { f \in MapFrames : Len(f.data) <= n }
DashFramesUpTo == [n \in 0..MaxCount |-> { f \in DashFrames : Len(f.data) <= n }]

\* Variants of IsTweets, for sensitivity checks: one reads the text without
\* parsing it, one accepts every type.
IsTweets_AnyType(f) == f.json = "object" /\ f.isArray
IsTweets_Unparsed(f) == f.type = "tweets" /\ f.isArray

\* msg = JSON.parse(ev.data); msg?.type === 'tweets' && Array.isArray(msg.data)
IsTweets(f) == f.json = "object" /\ f.type = "tweets" /\ f.isArray

\* ------------------------------------------------------------------ state
VARIABLES
    now,            \* wall clock, seconds
    urlOk,          \* whether new WebSocket(WS_URL) accepts the configured URL
    mapVisible,     \* UsaMap prop visible
    pendingLoads,   \* async IIFEs of UsaMap awaiting import("us-atlas/...")
    zoomAttached,   \* svg.call(zoom) has run
    mapSocks,       \* readyState of every socket UsaMap created, in creation order
    wsRef,          \* UsaMap wsRef.current: index into mapSocks, 0 = null
    points,         \* UsaMap pointsRef.current
    canvas,         \* points painted by the last drawHeatmap
    drawnAt,        \* time of the last drawHeatmap
    pageView,       \* Home view: "globe" or "dashboard"
    dash,           \* every DashboardLayout instance mounted so far, oldest first
    globe,          \* the mounted GlobeVisualization and its Scene
    lastCallback    \* the effect, cleanup or event callback that ran last:
                    \* what it was given, what it notified, whether an
                    \* exception left it

mapVars == <<mapVisible, pendingLoads, zoomAttached, mapSocks, wsRef, points,
             canvas, drawnAt>>
dashVars == <<pageView, dash>>
vars == <<now, urlOk, mapVars, dashVars, globe, lastCallback>>

Live(st) == st \in {"connecting", "open"}

\* One run of a callback: arg is the kind of frame a message callback got,
\* draws the drawHeatmap calls, scoreSets the setSatisfactionScore calls and
\* commentSets the setLiveComments calls it made.
Callback(cb, arg, draws, scoreSets, commentSets, raised) ==
    [cb |-> cb, arg |-> arg, draws |-> draws, scoreSets |-> scoreSets,
     commentSets |-> commentSets, raised |-> raised]
NoCallback == Callback("none", "", 0, 0, 0, FALSE)
Logged(cb) == Callback(cb, "", 0, 0, 0, FALSE)
FrameKind(f) ==
    IF f.json = "object" /\ f.type = "tweets" /\ f.isArray THEN "tweets" ELSE f.json

\* A variant of TryCatch that lets the exception through, for sensitivity checks.
TryCatch_Rethrows(threw) == threw

\* try { ... } catch { ... }: whether an exception raised inside leaves the
\* callback.
TryCatch(threw) == FALSE

\* ------------------------------------------------------------ UsaMap code
\* d3 geoAlbersUsa: null outside the composite US projection.
projection(lon, lat) ==
    IF lon >= -125 /\ lon <= -66 /\ lat >= 24 /\ lat <= 50 THEN <<lon, lat>> ELSE <<>>

\* A variant of drawHeatmap that leaves the loop at the first point it cannot
\* project (break for continue), for sensitivity checks.
drawHeatmap_Breaks(pts) ==
    LET bad == { j \in 1..Len(pts) : projection(pts[j].lon, pts[j].lat) = <<>> }
    IN IF bad = {} THEN pts
       ELSE SubSeq(pts, 1, (CHOOSE j \in bad : \A m \in bad : j <= m) - 1)

\* drawHeatmap: clears the canvas and paints every projectable point.
drawHeatmap(pts) == SelectSeq(pts, LAMBDA p : projection(p.lon, p.lat) # <<>>)

\* A strict variant of KeepPoint (boundary excluded), for sensitivity checks.
KeepPoint_Strict(p, cutoff) == p.ts > cutoff

\* pointsRef.current.filter(p => p.ts >= cutoff)
KeepPoint(p, cutoff) == p.ts >= cutoff
Prune(pts, t) ==
    LET cutoff == t - WindowSeconds
    IN SelectSeq(pts, LAMBDA p : KeepPoint(p, cutoff))

\* The validation of one record in the map's loop.
MapValid(t) ==
    TypeofNumber(t.lat) /\ TypeofNumber(t.lon) /\ TypeofNumber(t.sentiment_score)

\* Reading t.lat of a null element raises TypeError.
MapRecordThrows(t) == t.kind = "null"

\* for (const t of msg.data) { ... push ... }: the buffer after the loop and
\* whether the loop was left by an exception.
RECURSIVE MapLoop(_, _, _, _)
MapLoop(buf, data, i, t) ==
    IF i > Len(data) THEN [buf |-> buf, threw |-> FALSE]
    ELSE IF MapRecordThrows(data[i]) THEN [buf |-> buf, threw |-> TRUE]
    ELSE IF MapValid(data[i])
         THEN MapLoop(Append(buf, [lat |-> data[i].lat.n, lon |-> data[i].lon.n,
                                   sentiment |-> data[i].sentiment_score.n, ts |-> t]),
                      data, i + 1, t)
         ELSE MapLoop(buf, data, i + 1, t)

\* useEffect body when visible becomes true: canvas cleared, IIFE started.
MapShown ==
    /\ ~mapVisible
    /\ Len(mapSocks) + pendingLoads < MaxMapSocks
    /\ mapVisible' = TRUE
    /\ canvas' = <<>>
    /\ pendingLoads' = pendingLoads + 1
    /\ UNCHANGED <<zoomAttached, mapSocks, wsRef, points, drawnAt>>

\* UsaMap under any parent: the prop visible becomes true.
MapShow ==
    /\ MapShown
    /\ lastCallback' = Logged("map.effect")
    /\ UNCHANGED <<dashVars, now, urlOk, globe>>

\* ws.close() as the cleanup calls it
CloseCall(st) == IF st \in {"connecting", "open"} THEN "closing" ELSE st

\* visible becomes false: the cleanup of the previous effect runs.
MapCleanup(socks, ref) ==
    IF ref # 0 THEN [socks EXCEPT ![ref] = CloseCall(socks[ref])] ELSE socks
MapHidden ==
    /\ mapVisible
    /\ mapVisible' = FALSE
    /\ mapSocks' = MapCleanup(mapSocks, wsRef)
    /\ wsRef' = 0
    /\ UNCHANGED <<pendingLoads, zoomAttached, points, canvas, drawnAt>>

\* UsaMap under any parent: the prop visible becomes false.
MapHide ==
    /\ MapHidden
    /\ lastCallback' = Logged("map.cleanup")
    /\ UNCHANGED <<dashVars, now, urlOk, globe>>

\* <GlobeVisualization key={globeResetKey}>: a new key unmounts the UsaMap
\* in it, whose cleanup closes its socket, and mounts a new one, hidden, with
\* new refs.  The sockets and pending loads of the discarded instance are
\* followed no further.
MapRemounted ==
    /\ mapVisible' = FALSE /\ pendingLoads' = 0 /\ zoomAttached' = FALSE
    /\ mapSocks' = <<>> /\ wsRef' = 0 /\ points' = <<>> /\ canvas' = <<>>
    /\ UNCHANGED drawnAt

\* The IIFE resumes after the import: states drawn, zoom attached, socket made.
MapLoadDone ==
    /\ UNCHANGED globe
    /\ pendingLoads > 0
    /\ pendingLoads' = pendingLoads - 1
    /\ zoomAttached' = TRUE
    /\ IF urlOk
       THEN /\ mapSocks' = Append(mapSocks, "connecting")
            /\ wsRef' = Len(mapSocks) + 1
       ELSE UNCHANGED <<mapSocks, wsRef>>
    /\ lastCallback' = Callback("map.load", "resolved", 0, 0, 0, TryCatch(~urlOk))
    /\ UNCHANGED <<dashVars, now, urlOk, mapVisible, points, canvas, drawnAt>>

\* The import rejects: catch (e) { console.error("Failed loading US topology") }
MapLoadFail ==
    /\ UNCHANGED globe
    /\ pendingLoads > 0
    /\ pendingLoads' = pendingLoads - 1
    /\ lastCallback' = Callback("map.load", "rejected", 0, 0, 0, TryCatch(TRUE))
    /\ UNCHANGED <<dashVars, now, urlOk, mapVisible, zoomAttached, mapSocks, wsRef,
                   points, canvas, drawnAt>>

MapOpen(k) ==
    /\ UNCHANGED globe
    /\ mapSocks[k] = "connecting"
    /\ mapSocks' = [mapSocks EXCEPT ![k] = "open"]
    /\ lastCallback' = Logged("map.onopen")
    /\ UNCHANGED <<dashVars, now, urlOk, mapVisible, pendingLoads, zoomAttached, wsRef, points,
                   canvas, drawnAt>>

\* ws.onerror: logs.  The browser follows an error with a close event.
MapError(k) ==
    /\ UNCHANGED globe
    /\ mapSocks[k] \in {"connecting", "open", "closing"}
    /\ lastCallback' = Logged("map.onerror")
    /\ UNCHANGED <<dashVars, now, urlOk, mapVars>>

\* ws.onclose: logs.
MapClose(k) ==
    /\ UNCHANGED globe
    /\ mapSocks[k] \in {"connecting", "open", "closing"}
    /\ mapSocks' = [mapSocks EXCEPT ![k] = "closed"]
    /\ lastCallback' = Logged("map.onclose")
    /\ UNCHANGED <<dashVars, now, urlOk, mapVisible, pendingLoads, zoomAttached, wsRef, points,
                   canvas, drawnAt>>

\* Whether the body of the map's onmessage raises: JSON.parse on a text that
\* is not JSON, msg.type on null, or the loop on a null element.
MapBodyThrows(pts, f, t) ==
    \/ f.json \in {"invalid", "null"}
    \/ IsTweets(f) /\ MapLoop(pts, f.data, 1, t).threw

\* ws.onmessage of socket k with text frame f.
MapMessage(k, f) ==
    /\ UNCHANGED globe
    /\ mapSocks[k] = "open"
    /\ UNCHANGED <<dashVars, now, urlOk, mapVisible, pendingLoads, zoomAttached, mapSocks, wsRef>>
    /\ Len(MapLoop(points, f.data, 1, now).buf) <= MaxPoints
    /\ IF IsTweets(f)
       THEN LET r == MapLoop(points, f.data, 1, now)
            IN IF r.threw
               THEN /\ points' = r.buf
                    /\ UNCHANGED <<canvas, drawnAt>>
               ELSE /\ points' = Prune(r.buf, now)
                    /\ canvas' = drawHeatmap(points')
                    /\ drawnAt' = now
       ELSE UNCHANGED <<points, canvas, drawnAt>>
    /\ LET threw == MapBodyThrows(points, f, now)
       IN lastCallback' = Callback("map.onmessage", FrameKind(f),
                                   IF IsTweets(f) /\ ~threw THEN 1 ELSE 0, 0, 0,
                                   TryCatch(threw))

\* d3 zoom event: heatmap redrawn under the new transform.  The transform
\* moves pixels only; which points are painted does not depend on it.
MapZoom ==
    /\ UNCHANGED globe
    /\ mapVisible /\ zoomAttached
    /\ canvas' = drawHeatmap(points)
    /\ drawnAt' = now
    /\ lastCallback' = Callback("map.onzoom", "", 1, 0, 0, FALSE)
    /\ UNCHANGED <<dashVars, now, urlOk, mapVisible, pendingLoads, zoomAttached, mapSocks,
                   wsRef, points>>

\* ------------------------------------------------ GlobeVisualization code
\* useState<number | null>(null): no target.  if (targetDistance) is false
\* for it.
NoTarget == 0
\* handleZoomChange: distance < 1.4, distance > 1.9
ZoomInBelow == 14000
ZoomOutAbove == 19000
\* setTargetDistance(4.0), then setTargetDistance(3.0) after 220 ms
EntranceStart == 40000
Landing == 30000
\* onExit: setTargetDistance(2.6)
ExitTarget == 26000
\* camera.position.set(0, 0, 4) of the resetSignal effect, (0, 0, 3) of the
\* usa-to-globe effect
SignalResetDistance == 40000
ViewResetDistance == 30000
\* THREE.MathUtils.lerp(d, targetDistance, 0.08); Math.abs(...) < 0.01
LerpPercent == 8
DoneWithin == 100

Abs(x) == IF x < 0 THEN -x ELSE x

\* A variant of Lerp with the sign of the step wrong, for sensitivity checks.
Lerp_Away(d, t) == d - ((t - d) * LerpPercent) \div 100

\* lerp(d, t, 0.08) = d + (t - d) * 0.08
Lerp(d, t) == d + ((t - d) * LerpPercent) \div 100

\* The distances the user's wheel or pinch leaves the camera at, within
\* minDistance 1.2 and maxDistance 6 of the OrbitControls.
ZoomStops == {13900, 14000, 19000, 19100, 60000}

\* A variant of handleZoomChange with the thresholds included, for
\* sensitivity checks.
handleZoomChange_Inclusive(prev, distance) ==
    IF prev = "globe" /\ distance <= ZoomInBelow THEN "usa"
    ELSE IF prev = "usa" /\ distance >= ZoomOutAbove THEN "globe"
    ELSE prev

\* setView(prev => ...) of handleZoomChange
handleZoomChange(prev, distance) ==
    IF prev = "globe" /\ distance < ZoomInBelow THEN "usa"
    ELSE IF prev = "usa" /\ distance > ZoomOutAbove THEN "globe"
    ELSE prev

\* A variant of FrameBranch that reports during a reset, for sensitivity checks.
FrameBranch_IgnoresReset(targetDistance, isResetting) ==
    IF targetDistance # NoTarget THEN "tween" ELSE "report"

\* useFrame: if (targetDistance) {...} else if (!isResettingRef.current) {...}
FrameBranch(targetDistance, isResetting) ==
    IF targetDistance # NoTarget THEN "tween"
    ELSE IF ~isResetting THEN "report"
    ELSE "skip"

\* The component after its mount and the mount effects: the entrance effect
\* has set targetDistance to 4.0 and started the 220 ms timer, the Scene's
\* resetSignal effect has put the camera at distance 4, set the reset flag
\* and started its 150 ms timer.  zooms counts the user's zoom inputs and
\* lastInput is the last input the user gave the component.
GlobeMounted(zooms) ==
    [view |-> "globe", targetDistance |-> EntranceStart, d |-> SignalResetDistance,
     isResetting |-> TRUE, resetTimers |-> 1, entrance |-> TRUE,
     zooms |-> zooms, lastInput |-> "none"]

\* <Canvas key={active ? ... : ...}>: a change of active mounts a new Canvas
\* and Scene; the resetSignal effect of the new Scene runs, the timer of the
\* old one is cleared.
CanvasRemounted(g) ==
    [g EXCEPT !.d = SignalResetDistance, !.isResetting = TRUE, !.resetTimers = 1]

\* The Scene effect on [view]: when the view went from 'usa' to 'globe' the
\* camera is put back at distance 3, the reset flag set and a 100 ms timer
\* started.  prevViewRef holds the view of the previous run: prev.
SceneViewEffect(prev, g) ==
    IF prev = "usa" /\ g.view = "globe"
    THEN [g EXCEPT !.d = ViewResetDistance, !.isResetting = TRUE, !.resetTimers = @ + 1]
    ELSE g

\* A variant of OnExit that sets the view and nothing else, for sensitivity checks.
OnExit_ViewOnly(g) == [g EXCEPT !.view = "globe"]

\* onExit={() => { setView('globe'); setTargetDistance(2.6) }}, and the Scene
\* effect the new view runs.
OnExit(g) ==
    SceneViewEffect(g.view, [g EXCEPT !.view = "globe", !.targetDistance = ExitTarget])

\* <UsaMap visible={view === 'usa'}>: the effect or cleanup a new view runs.
ViewShown(v) ==
    IF (v = "usa") = mapVisible THEN UNCHANGED mapVars
    ELSE IF v = "usa" THEN MapShown
    ELSE MapHidden

\* One run of the useFrame callback.
GlobeFrame ==
    /\ UNCHANGED <<now, urlOk, dashVars>>
    /\ LET branch == FrameBranch(globe.targetDistance, globe.isResetting)
       IN CASE branch = "tween" ->
                 LET next == Lerp(globe.d, globe.targetDistance)
                     done == Abs(next - globe.targetDistance) < DoneWithin
                 IN /\ globe' = [globe EXCEPT !.d = next,
                                              !.targetDistance = IF done THEN NoTarget ELSE @]
                    /\ UNCHANGED mapVars
                    /\ lastCallback' = Callback("globe.useFrame", IF done THEN "done" ELSE "tween",
                                                0, 0, 0, FALSE)
            [] branch = "report" ->
                 LET v == handleZoomChange(globe.view, globe.d)
                 IN /\ globe' = SceneViewEffect(globe.view, [globe EXCEPT !.view = v])
                    /\ ViewShown(v)
                    /\ lastCallback' = Callback("globe.useFrame", "reported", 0, 0, 0, FALSE)
            [] OTHER ->
                 /\ UNCHANGED <<globe, mapVars>>
                 /\ lastCallback' = Callback("globe.useFrame", "skipped", 0, 0, 0, FALSE)

\* setTimeout(() => { isResettingRef.current = false }, ...)
GlobeResetTimer ==
    /\ globe.resetTimers > 0
    /\ globe' = [globe EXCEPT !.isResetting = FALSE, !.resetTimers = @ - 1]
    /\ lastCallback' = Logged("globe.resetTimer")
    /\ UNCHANGED <<now, urlOk, mapVars, dashVars>>

\* setTimeout(() => setTargetDistance(3.0), 220)
GlobeEntranceTimer ==
    /\ globe.entrance
    /\ globe' = [globe EXCEPT !.targetDistance = Landing, !.entrance = FALSE]
    /\ lastCallback' = Logged("globe.entranceTimer")
    /\ UNCHANGED <<now, urlOk, mapVars, dashVars>>

\* The user zooms the globe with the OrbitControls.  The globe layer takes
\* pointer events only while Home shows the globe and the view is 'globe'.
GlobeUserZoom(z) ==
    /\ pageView = "globe" /\ globe.view = "globe"
    /\ globe.zooms < MaxZooms
    /\ z # globe.d
    /\ globe' = [globe EXCEPT !.d = z, !.zooms = @ + 1, !.lastInput = "zoom"]
    /\ lastCallback' = Logged("globe.controls")
    /\ UNCHANGED <<now, urlOk, mapVars, dashVars>>

\* The user clicks 'Back to Globe' of the visible UsaMap.
GlobeExit ==
    /\ pageView = "globe" /\ globe.view = "usa"
    /\ globe' = [OnExit(globe) EXCEPT !.lastInput = "exit"]
    /\ ViewShown("globe")
    /\ lastCallback' = Logged("map.onExit")
    /\ UNCHANGED <<now, urlOk, dashVars>>

\* --------------------------------------------------- DashboardLayout code
\* One instance: the closure variable ws (index into socks, 0 = null), the
\* refs sentimentSumRef/countRef, the state satisfactionScore/liveComments,
\* the pending setTimeout(connect) timers (due times), and the number of
\* new WebSocket calls so far.  present is what AnimatePresence holds of it:
\* FALSE while the exit animation keeps the instance mounted after Home has
\* stopped rendering it.
NewInstance ==
    [mounted |-> TRUE, present |-> TRUE, socks |-> <<>>, ws |-> 0, sum |-> 0, count |-> 0,
     score |-> [num |-> 0, den |-> 1], comments |-> <<>>, timers |-> <<>>,
     attempts |-> 0]

\* connect(): ws = new WebSocket(wsUrl); a throwing constructor is caught and
\* logged, ws keeps its old value.
Connect(d) ==
    IF urlOk
    THEN [d EXCEPT !.attempts = @ + 1, !.socks = Append(@, "connecting"),
                   !.ws = Len(d.socks) + 1]
    ELSE [d EXCEPT !.attempts = @ + 1]

\* A variant of DashOnError that schedules a reconnect too, for sensitivity checks.
DashOnError_Reconnects(d, t) == [d EXCEPT !.timers = Append(@, t + ReconnectDelay)]

\* ws.onerror: three console.error calls.
DashOnError(d, t) == d

\* A variant of DashOnClose that also clears the totals, for sensitivity checks.
DashOnClose_ClearsTotals(d, t) ==
    [d EXCEPT !.timers = Append(@, t + ReconnectDelay), !.sum = 0, !.count = 0]

\* ws.onclose: logs, then setTimeout(connect, 3000).
DashOnClose(d, t) ==
    [d EXCEPT !.timers = Append(@, t + ReconnectDelay)]

\* Unmount: the effect cleanup runs, if (ws) ws.close(); React discards the
\* component's state (satisfactionScore, liveComments); the refs live on in
\* the closures of the socket handlers.
DashCleanup(d) ==
    [d EXCEPT !.mounted = FALSE, !.present = FALSE, !.score = NewInstance.score, !.comments = <<>>,
              !.socks = IF d.ws # 0 THEN [@ EXCEPT ![d.ws] = CloseCall(@)] ELSE @]

\* A variant of LastN that keeps the oldest entries, for sensitivity checks.
LastN_KeepsOldest(q, n) == IF Len(q) <= n THEN q ELSE SubSeq(q, 1, n)

\* newComments.slice(-50)
LastN(q, n) == IF Len(q) <= n THEN q ELSE SubSeq(q, Len(q) - n + 1, Len(q))

\* The console.log of a record: tweet.sentiment_score raises on null, and
\* tweet.text?.substring(0, 50) raises when text is neither absent nor a string.
DashRecordThrows(tw) ==
    \/ tw.kind = "null"
    \/ tw.text.t \notin {"str", "undef", "null"}

\* for (const tweet of msg.data) { ... }: sum, count and comments after the
\* loop, and whether it was left by an exception.  State setters of an
\* unmounted component are dropped by React.
RECURSIVE DashLoop(_, _, _, _)
DashLoop(d, data, i, t) ==
    IF i > Len(data) THEN [d |-> d, threw |-> FALSE]
    ELSE IF DashRecordThrows(data[i]) THEN [d |-> d, threw |-> TRUE]
    ELSE IF TypeofNumber(data[i].sentiment_score)
         THEN LET c == [text |-> data[i].text.n, sentiment |-> data[i].sentiment_score.n,
                        timestamp |-> t]
                  d1 == [d EXCEPT !.sum = @ + data[i].sentiment_score.n, !.count = @ + 1]
                  d2 == IF Truthy(data[i].text) /\ d.mounted
                        THEN [d1 EXCEPT !.comments = LastN(Append(@, c), MaxComments)]
                        ELSE d1
              IN DashLoop(d2, data, i + 1, t)
         ELSE DashLoop(d, data, i + 1, t)

\* if (countRef.current > 0) setSatisfactionScore(sum / count)
PublishScore(d) ==
    IF d.count > 0 /\ d.mounted
    THEN [d EXCEPT !.score = [num |-> d.sum, den |-> d.count]]
    ELSE d

\* Whether the body of the dashboard's onmessage raises: JSON.parse on a text
\* that is not JSON, or the loop on a record it cannot log.  msg?.type reads
\* null safely.
DashBodyThrows(d, f, t) ==
    \/ f.json = "invalid"
    \/ IsTweets(f) /\ DashLoop(d, f.data, 1, t).threw

\* The setLiveComments calls of the loop: one for each record it reaches
\* that has a numeric sentiment_score and a truthy text.
RECURSIVE CommentCalls(_, _)
CommentCalls(data, i) ==
    IF i > Len(data) \/ DashRecordThrows(data[i]) THEN 0
    ELSE (IF TypeofNumber(data[i].sentiment_score) /\ Truthy(data[i].text) THEN 1 ELSE 0)
         + CommentCalls(data, i + 1)

\* The setSatisfactionScore calls of the handler: one after the loop, if the
\* loop ended and countRef.current > 0.
ScoreCalls(d, f, t) ==
    IF IsTweets(f) /\ ~DashLoop(d, f.data, 1, t).threw /\ DashLoop(d, f.data, 1, t).d.count > 0
    THEN 1 ELSE 0

\* A variant of DashOnMessage that forgets the totals once the oldest comment
\* is older than the window, for sensitivity checks.
DashOnMessage_Windowed(d, f, t) ==
    LET w == IF d.comments # <<>> /\ d.comments[1].timestamp < t - WindowSeconds
             THEN [d EXCEPT !.sum = 0, !.count = 0] ELSE d
    IN IF IsTweets(f)
       THEN LET r == DashLoop(w, f.data, 1, t)
            IN IF r.threw THEN r.d ELSE PublishScore(r.d)
       ELSE w

\* ws.onmessage with text frame f.
DashOnMessage(d, f, t) ==
    IF IsTweets(f)
    THEN LET r == DashLoop(d, f.data, 1, t)
         IN IF r.threw THEN r.d ELSE PublishScore(r.d)
    ELSE d

\* Totals over all instances, for the bounds of the model.
RECURSIVE SumSeq(_)
SumSeq(q) == IF q = <<>> THEN 0 ELSE Head(q) + SumSeq(Tail(q))
TotalAttempts == SumSeq([i \in 1..Len(dash) |-> dash[i].attempts])
TotalCount == SumSeq([i \in 1..Len(dash) |-> dash[i].count])

\* Home: setView('dashboard') mounts a new DashboardLayout; its effect connects.
DashMount ==
    /\ pageView = "globe"
    /\ \A i \in 1..Len(dash) : ~dash[i].mounted
    /\ Len(dash) < MaxInst
    /\ TotalAttempts < MaxAttempts
    /\ pageView' = "dashboard"
    /\ dash' = Append(dash, Connect(NewInstance))
    /\ globe' = CanvasRemounted(globe)
    /\ lastCallback' = Callback("dash.effect", "", 0, 0, 0, TryCatch(~urlOk))
    /\ UNCHANGED <<now, urlOk, mapVars>>

\* Home: handleReturnToGlobe.  setView('globe') unmounts the dashboard once
\* its exit animation has run out undisturbed, and its effect cleanup runs;
\* the new globeResetKey mounts a new GlobeVisualization and UsaMap.
DashUnmount ==
    /\ pageView = "dashboard"
    /\ pageView' = "globe"
    /\ dash' = [dash EXCEPT ![Len(dash)] = DashCleanup(@)]
    /\ globe' = GlobeMounted(globe.zooms)
    /\ MapRemounted
    /\ lastCallback' = Logged("dash.cleanup")
    /\ UNCHANGED <<now, urlOk>>

\* Home: handleReturnToGlobe.  After setView('globe') AnimatePresence keeps
\* the motion.div, and the DashboardLayout in it, mounted while the exit
\* animation runs; the new globeResetKey mounts a new GlobeVisualization and
\* UsaMap.
DashLeave ==
    /\ pageView = "dashboard"
    /\ pageView' = "globe"
    /\ dash' = [dash EXCEPT ![Len(dash)].present = FALSE]
    /\ globe' = GlobeMounted(globe.zooms)
    /\ MapRemounted
    /\ lastCallback' = Logged("home.onclick")
    /\ UNCHANGED <<now, urlOk>>

\* The exit animation completes: the instance unmounts, its cleanup runs.
DashExitDone ==
    /\ UNCHANGED globe
    /\ dash # <<>> /\ dash[Len(dash)].mounted /\ ~dash[Len(dash)].present
    /\ dash' = [dash EXCEPT ![Len(dash)] = DashCleanup(@)]
    /\ lastCallback' = Logged("dash.cleanup")
    /\ UNCHANGED <<now, urlOk, mapVars, pageView>>

\* Home: setView('dashboard') while the exit animation still runs.  The child
\* of AnimatePresence has the key it had, so the instance that was leaving
\* is presented again: nothing mounts, no effect runs.
DashReopen ==
    /\ pageView = "globe"
    /\ dash # <<>> /\ dash[Len(dash)].mounted /\ ~dash[Len(dash)].present
    /\ pageView' = "dashboard"
    /\ dash' = [dash EXCEPT ![Len(dash)].present = TRUE]
    /\ globe' = CanvasRemounted(globe)
    /\ lastCallback' = Logged("home.onclick")
    /\ UNCHANGED <<now, urlOk, mapVars>>

DashOpen(i, k) ==
    /\ UNCHANGED globe
    /\ dash[i].socks[k] = "connecting"
    /\ dash' = [dash EXCEPT ![i].socks[k] = "open"]
    /\ lastCallback' = Logged("dash.onopen")
    /\ UNCHANGED <<now, urlOk, mapVars, pageView>>

DashError(i, k) ==
    /\ UNCHANGED globe
    /\ dash[i].socks[k] \in {"connecting", "open", "closing"}
    /\ dash' = [dash EXCEPT ![i] = DashOnError(@, now)]
    /\ lastCallback' = Logged("dash.onerror")
    /\ UNCHANGED <<now, urlOk, mapVars, pageView>>

DashClose(i, k) ==
    /\ UNCHANGED globe
    /\ dash[i].socks[k] \in {"connecting", "open", "closing"}
    /\ dash' = [dash EXCEPT ![i] = DashOnClose([@ EXCEPT !.socks[k] = "closed"], now)]
    /\ lastCallback' = Logged("dash.onclose")
    /\ UNCHANGED <<now, urlOk, mapVars, pageView>>

\* A reconnect timer of instance i comes due: connect() runs.
RemoveAt(q, j) == SubSeq(q, 1, j - 1) \o SubSeq(q, j + 1, Len(q))
DashTimer(i, j) ==
    /\ UNCHANGED globe
    /\ dash[i].timers[j] <= now
    /\ TotalAttempts < MaxAttempts
    /\ dash' = [dash EXCEPT ![i] = Connect([@ EXCEPT !.timers = RemoveAt(@, j)])]
    /\ lastCallback' = Callback("dash.connect", "", 0, 0, 0, TryCatch(~urlOk))
    /\ UNCHANGED <<now, urlOk, mapVars, pageView>>

DashMessage(i, k, f) ==
    /\ UNCHANGED globe
    /\ dash[i].socks[k] = "open"
    /\ UNCHANGED <<now, urlOk, mapVars, pageView>>
    /\ dash' = [dash EXCEPT ![i] = DashOnMessage(@, f, now)]
    /\ lastCallback' = Callback("dash.onmessage", FrameKind(f), 0,
                                ScoreCalls(dash[i], f, now),
                                IF IsTweets(f) THEN CommentCalls(f.data, 1) ELSE 0,
                                TryCatch(DashBodyThrows(dash[i], f, now)))

\* ------------------------------------------------------------------ clock
TickSteps == {60, 61}
Tick(d) ==
    /\ UNCHANGED globe
    /\ now + d <= MaxTime
    /\ now' = now + d
    /\ UNCHANGED <<urlOk, mapVars, dashVars, lastCallback>>

\* ------------------------------------------------------------------ specs
Init ==
    /\ now = 0
    /\ urlOk \in BOOLEAN
    /\ mapVisible = FALSE
    /\ pendingLoads = 0
    /\ zoomAttached = FALSE
    /\ mapSocks = <<>>
    /\ wsRef = 0
    /\ points = <<>>
    /\ canvas = <<>>
    /\ drawnAt = 0
    /\ pageView = "globe"
    /\ dash = <<>>
    /\ globe = GlobeMounted(0)
    /\ lastCallback = NoCallback

MapNext ==
    \/ MapShow
    \/ MapHide
    \/ MapLoadDone
    \/ MapLoadFail
    \/ \E k \in 1..Len(mapSocks) : MapOpen(k)
    \/ \E k \in 1..Len(mapSocks) : MapError(k)
    \/ \E k \in 1..Len(mapSocks) : MapClose(k)
    \/ \E k \in 1..Len(mapSocks), f \in MapFrames : MapMessage(k, f)
    \/ MapZoom
    \/ \E d \in TickSteps : Tick(d)

\* One visit of the map: shown once, never hidden, the socket stays up.
MapVisitNext ==
    \/ MapShow
    \/ MapLoadDone
    \/ \E k \in 1..Len(mapSocks) : MapOpen(k)
    \/ \E k \in 1..Len(mapSocks), f \in MapFrames : MapMessage(k, f)
    \/ MapZoom
    \/ \E d \in TickSteps : Tick(d)

DashNext ==
    \/ DashMount
    \/ DashUnmount
    \/ \E i \in 1..Len(dash) : \E k \in 1..Len(dash[i].socks) : DashOpen(i, k)
    \/ \E i \in 1..Len(dash) : \E k \in 1..Len(dash[i].socks) : DashError(i, k)
    \/ \E i \in 1..Len(dash) : \E k \in 1..Len(dash[i].socks) : DashClose(i, k)
    \/ \E i \in 1..Len(dash) : \E j \in 1..Len(dash[i].timers) : DashTimer(i, j)
    \/ \E i \in 1..Len(dash) : \E k \in 1..Len(dash[i].socks) :
          \E f \in DashFramesUpTo[MaxCount - TotalCount] : DashMessage(i, k, f)
    \/ \E d \in TickSteps : Tick(d)

\* The whole life of the first socket of the map, fed frames of at most one
\* record: the map is shown again only while it has made no socket.
MapLifeNext ==
    \/ mapSocks = <<>> /\ pendingLoads = 0 /\ MapShow
    \/ MapHide
    \/ MapLoadDone
    \/ MapLoadFail
    \/ \E k \in 1..Len(mapSocks) : MapOpen(k)
    \/ \E k \in 1..Len(mapSocks) : MapError(k)
    \/ \E k \in 1..Len(mapSocks) : MapClose(k)
    \/ \E k \in 1..Len(mapSocks), f \in MapFramesUpTo(1) : MapMessage(k, f)
    \/ MapZoom
    \/ \E d \in TickSteps : Tick(d)

\* The whole life of one dashboard instance, reconnects and the time after
\* its unmount included, fed frames of at most one record.
DashLifeNext ==
    \/ dash = <<>> /\ DashMount
    \/ DashUnmount
    \/ \E i \in 1..Len(dash) : \E k \in 1..Len(dash[i].socks) : DashOpen(i, k)
    \/ \E i \in 1..Len(dash) : \E k \in 1..Len(dash[i].socks) : DashError(i, k)
    \/ \E i \in 1..Len(dash) : \E k \in 1..Len(dash[i].socks) : DashClose(i, k)
    \/ \E i \in 1..Len(dash) : \E j \in 1..Len(dash[i].timers) : DashTimer(i, j)
    \/ \E i \in 1..Len(dash) : \E k \in 1..Len(dash[i].socks) :
          \E f \in DashFramesUpTo[IF TotalCount < MaxCount THEN 1 ELSE 0] : DashMessage(i, k, f)
    \/ \E d \in TickSteps : Tick(d)

\* Visits of the dashboard with the exit animation followed: leaving and
\* unmounting are two steps, and the view can be reopened between them.
DashVisitsNext ==
    \/ DashMount
    \/ DashLeave
    \/ DashExitDone
    \/ DashReopen
    \/ \E i \in 1..Len(dash) : \E k \in 1..Len(dash[i].socks) : DashOpen(i, k)
    \/ \E i \in 1..Len(dash) : \E k \in 1..Len(dash[i].socks) : DashClose(i, k)
    \/ \E i \in 1..Len(dash) : \E j \in 1..Len(dash[i].timers) : DashTimer(i, j)
    \/ \E i \in 1..Len(dash) : \E k \in 1..Len(dash[i].socks) :
          \E f \in DashFramesUpTo[IF TotalCount < MaxCount THEN 1 ELSE 0] : DashMessage(i, k, f)
    \/ \E d \in TickSteps : Tick(d)

\* One dashboard instance fed the long feed: every record counted so far
\* carried a text, so the n-th comment accepted has a text of n characters.
LongFeedNext ==
    \/ dash = <<>> /\ DashMount
    \/ DashUnmount
    \/ \E i \in 1..Len(dash) : \E k \in 1..Len(dash[i].socks) : DashOpen(i, k)
    \/ \E i \in 1..Len(dash) : \E k \in 1..Len(dash[i].socks) :
          \E f \in LongFeedFrames(dash[i].count) :
             dash[i].count + Len(f.data) <= MaxFeed /\ DashMessage(i, k, f)

\* The globe on the page: frames, timers, the user's zooms and exits.
GlobeNext ==
    \/ GlobeFrame
    \/ GlobeResetTimer
    \/ GlobeEntranceTimer
    \/ \E z \in ZoomStops : GlobeUserZoom(z)
    \/ GlobeExit

\* The two consumers share no state but the clock and the URL.  The feed one
\* consumer at a time: the dashboard is opened only while the map has done
\* nothing, the map is used only before the dashboard is opened.
MapIdle ==
    /\ ~mapVisible /\ pendingLoads = 0 /\ ~zoomAttached /\ mapSocks = <<>> /\ wsRef = 0
    /\ points = <<>> /\ canvas = <<>>
FeedNext ==
    \/ dash = <<>> /\ pageView = "globe" /\ MapLifeNext
    \/ MapIdle /\ DashLifeNext

Next == MapNext \/ DashNext \/ DashVisitsNext \/ GlobeNext

Spec == Init /\ [][Next]_vars
MapSpec == Init /\ [][MapNext]_vars
MapVisitSpec == Init /\ [][MapVisitNext]_vars
DashSpec == Init /\ [][DashNext]_vars
FeedSpec == Init /\ [][FeedNext]_vars
LongFeedSpec == Init /\ [][LongFeedNext]_vars
DashVisitsSpec == Init /\ [][DashVisitsNext]_vars
GlobeSpec == Init /\ [][GlobeNext]_vars
\* requestAnimationFrame keeps calling the useFrame callback.
GlobeFairSpec == GlobeSpec /\ WF_vars(GlobeFrame)

\* ----------------------------------------------------------------- claims
\* What the claims call a valid record and a fresh point.
IsNumber(v) == v.t = "num"
ValidRecord(t) ==
    t.kind = "object" /\ IsNumber(t.lat) /\ IsNumber(t.lon) /\ IsNumber(t.sentiment_score)
ScoredRecord(t) == t.kind = "object" /\ IsNumber(t.sentiment_score)
AsPoint(t, at) ==
    [lat |-> t.lat.n, lon |-> t.lon.n, sentiment |-> t.sentiment_score.n, ts |-> at]
ExpectedPoints(data, at) ==
    LET ok == SelectSeq(data, ValidRecord)
    IN [j \in 1..Len(ok) |-> AsPoint(ok[j], at)]
Age(p, at) == at - p.ts
Fresh(pts, at) == SelectSeq(pts, LAMBDA p : Age(p, at) <= WindowSeconds)
ScoreSum(data) ==
    SumSeq([j \in 1..Len(data) |-> IF ScoredRecord(data[j]) THEN data[j].sentiment_score.n ELSE 0])
ScoreCount(data) ==
    SumSeq([j \in 1..Len(data) |-> IF ScoredRecord(data[j]) THEN 1 ELSE 0])
LiveCount(socks) == Cardinality({ k \in 1..Len(socks) : Live(socks[k]) })
ClosedCount(socks) == Cardinality({ k \in 1..Len(socks) : socks[k] = "closed" })

\* C1: in every 'tweets' message with array data, whatever the shape of its
\* elements, each valid record before and after an invalid one is ingested
\* (map buffer, dashboard sum and count) and the prune and the redraw or
\* score update of the batch still run.
MapBatchIngested(f) ==
    /\ points' = Fresh(points \o ExpectedPoints(f.data, now), now)
    /\ canvas' = drawHeatmap(points')
    /\ drawnAt' = now
DashBatchIngested(i, f) ==
    /\ dash'[i].sum = dash[i].sum + ScoreSum(f.data)
    /\ dash'[i].count = dash[i].count + ScoreCount(f.data)
    /\ (dash[i].mounted /\ dash'[i].count > 0)
         => dash'[i].score = [num |-> dash'[i].sum, den |-> dash'[i].count]
C1_PartialBatchTolerance ==
    [][ /\ \A k \in 1..Len(mapSocks), f \in MapFrames :
             (IsTweets(f) /\ MapMessage(k, f)) => MapBatchIngested(f)
        /\ \A i \in 1..Len(dash) : \A k \in 1..Len(dash[i].socks), f \in DashFrames :
             (IsTweets(f) /\ DashMessage(i, k, f)) => DashBatchIngested(i, f) ]_vars

\* C2: once the dashboard's effect cleanup has run, the instance opens no new
\* connection and none of its callbacks changes sum, count, score or comments.
C2_TeardownEndsFeed ==
    [][ \A i \in 1..Len(dash) :
          ~dash[i].mounted =>
             /\ dash'[i].attempts = dash[i].attempts
             /\ dash'[i].sum = dash[i].sum
             /\ dash'[i].count = dash[i].count
             /\ dash'[i].score = dash[i].score
             /\ dash'[i].comments = dash[i].comments ]_vars

\* C3: whenever the map is not visible, no socket the map created is
\* connecting or open.
C3_HiddenMapHasNoSocket ==
    ~mapVisible => \A k \in 1..Len(mapSocks) : ~Live(mapSocks[k])

\* C4: every point painted by a redraw at time t, by an ingest or by a zoom,
\* has age t - ts of at most 60 seconds.
C4_NoStalePointDrawn ==
    \A j \in 1..Len(canvas) : Age(canvas[j], drawnAt) <= WindowSeconds

\* C5: for every 'tweets' message with array data the map appends exactly one
\* point per record whose lat, lon and sentiment_score are numbers, nothing
\* for the others, in the order of the batch.
C5_OnePointPerValidRecord ==
    [][ \A k \in 1..Len(mapSocks), f \in MapFrames :
          (IsTweets(f) /\ MapMessage(k, f)) =>
             \E kept \in 0..Len(points) :
                points' = SubSeq(points, Len(points) - kept + 1, Len(points))
                          \o ExpectedPoints(f.data, now) ]_vars

\* C6: after the prune step run at time now, no point older than 60 seconds
\* remains, every point of age at most 60 seconds (60 included) is retained,
\* and the retained points keep their order, ahead of the points just added.
PruneRan == now' = now /\ lastCallback'.cb = "map.onmessage" /\ lastCallback'.draws = 1
C6_PruneKeepsWindow ==
    [][ PruneRan =>
          LET kept == Fresh(points, now)
          IN /\ \A j \in 1..Len(points') : Age(points'[j], now) <= WindowSeconds
             /\ Len(points') >= Len(kept)
             /\ SubSeq(points', 1, Len(kept)) = kept
             /\ \A j \in Len(kept) + 1..Len(points') : points'[j].ts = now ]_vars
\* A point of age exactly 60 kept, beside a point of the batch just ingested.
C6_Witness ==
    /\ drawnAt = now
    /\ \E j \in 1..Len(points) : Age(points[j], now) = WindowSeconds
    /\ \E j \in 1..Len(points) : Age(points[j], now) = 0

\* C7: in every dashboard instance each close event has scheduled exactly one
\* reconnect timer, each fired timer has made exactly one connection attempt
\* and error events have scheduled nothing: attempts made plus timers pending
\* equal 1 plus the close events, so attempts never exceed 1 + closes.
C7_OneAttemptPerClose ==
    \A i \in 1..Len(dash) :
        /\ dash[i].attempts + Len(dash[i].timers) = 1 + ClosedCount(dash[i].socks)
        /\ dash[i].attempts <= 1 + ClosedCount(dash[i].socks)
\* Two closes, the first one's timer fired, the second one's still pending.
C7_Witness ==
    \E i \in 1..Len(dash) :
        /\ dash[i].attempts = 2
        /\ ClosedCount(dash[i].socks) = 2
        /\ Len(dash[i].timers) = 1

\* C8: while the dashboard stays mounted, after every close or failed
\* connection attempt a new attempt is on its way: whenever the instance has
\* no socket short of closed, a reconnect timer is pending, due at most 3
\* seconds ahead.
C8_ReconnectAlwaysPending ==
    \A i \in 1..Len(dash) :
        (dash[i].mounted /\ \A k \in 1..Len(dash[i].socks) : dash[i].socks[k] = "closed")
           => \E j \in 1..Len(dash[i].timers) : dash[i].timers[j] <= now + ReconnectDelay

\* C9: whenever the map is visible and the socket it holds has closed, a
\* reconnect is under way: a socket of the map is connecting or open, or a
\* step that creates one is enabled.
MapLost == mapVisible /\ wsRef # 0 /\ mapSocks[wsRef] = "closed"
C9_MapReconnects ==
    MapLost => (\/ \E k \in 1..Len(mapSocks) : Live(mapSocks[k])
                \/ ENABLED MapLoadDone)

\* C10: the map, and each dashboard instance, owns at most one socket that is
\* connecting or open.
C10_OneLiveSocket ==
    /\ LiveCount(mapSocks) <= 1
    /\ \A i \in 1..Len(dash) : LiveCount(dash[i].socks) <= 1

\* A step in which a message callback of cb was handed a frame of kind arg.
MessageStep(cb, arg) ==
    now' = now /\ lastCallback'.cb = cb /\ lastCallback'.arg = arg
NoNotification ==
    lastCallback'.draws = 0 /\ lastCallback'.scoreSets = 0 /\ lastCallback'.commentSets = 0
MapIngestUnchanged == UNCHANGED <<points, canvas, drawnAt>>
DashIngestUnchanged ==
    /\ Len(dash') = Len(dash)
    /\ \A i \in 1..Len(dash) :
          /\ dash'[i].sum = dash[i].sum
          /\ dash'[i].count = dash[i].count
          /\ dash'[i].score = dash[i].score
          /\ dash'[i].comments = dash[i].comments

\* C11: a frame that is not valid JSON leaves the map's buffer and canvas and
\* the dashboard's sum, count, score and comments as they were, and the
\* callback issues no redraw and no state update.
C11_InvalidJsonChangesNothing ==
    [][ (MessageStep("map.onmessage", "invalid") \/ MessageStep("dash.onmessage", "invalid"))
          => (MapIngestUnchanged /\ DashIngestUnchanged /\ NoNotification) ]_vars
\* The map's callback has just been handed invalid JSON while its buffer
\* holds a point a prune would have removed.
C11_Witness ==
    /\ lastCallback.cb = "map.onmessage" /\ lastCallback.arg = "invalid"
    /\ \E j \in 1..Len(points) : Age(points[j], now) > WindowSeconds

\* C12: a parsed message whose type is not 'tweets' or whose data is not an
\* array (the JSON null and scalars included) is ignored without error: no
\* point appended or pruned, sum, count, score and comments as they were, no
\* redraw, and the callback returns normally.
IgnoredKinds == {"null", "scalar", "object"}
C12_WrongEnvelopeIgnored ==
    [][ (\E cb \in {"map.onmessage", "dash.onmessage"}, arg \in IgnoredKinds :
            MessageStep(cb, arg))
          => /\ MapIngestUnchanged /\ DashIngestUnchanged /\ NoNotification
             /\ ~lastCallback'.raised ]_vars
\* The dashboard's callback has just been handed a message of another type
\* while it holds a total and a comment.
C12_Witness ==
    /\ lastCallback.cb = "dash.onmessage" /\ lastCallback.arg = "object"
    /\ \E i \in 1..Len(dash) : dash[i].count > 0 /\ dash[i].comments # <<>>

\* C13: once a mounted dashboard has counted at least one record, the score
\* it publishes is the mean of all it has counted: score = sum / count.
C13_ScoreIsMean ==
    \A i \in 1..Len(dash) :
        (dash[i].mounted /\ dash[i].count >= 1)
           => dash[i].score.num * dash[i].count = dash[i].sum * dash[i].score.den

\* C14: the dashboard's totals are never windowed.  The passage of time
\* changes neither sum nor count nor score; a later batch only adds to them:
\* the count never drops, and the sum moves by no more than the scores (of
\* magnitude at most 1) of the records newly counted.
C14_TotalsNeverWindowed ==
    [][ \A i \in 1..Len(dash) :
          /\ now' # now =>
                /\ dash'[i].sum = dash[i].sum /\ dash'[i].count = dash[i].count
                /\ dash'[i].score = dash[i].score
          /\ dash'[i].count >= dash[i].count
          /\ Abs(dash'[i].sum - dash[i].sum) <= dash'[i].count - dash[i].count ]_vars
\* A record counted at time 0 and one counted after the window has passed
\* both weigh in the published score.
C14_Witness ==
    \E i \in 1..Len(dash) :
        /\ dash[i].count = 2 /\ dash[i].score = [num |-> 2, den |-> 2]
        /\ Len(dash[i].comments) = 2
        /\ dash[i].comments[1].timestamp = 0
        /\ dash[i].comments[2].timestamp > WindowSeconds

\* C15: when the reconnect loop opens a new connection for an instance, the
\* instance's sum and count start again from zero.
C15_TotalsResetOnReconnect ==
    [][ \A i \in 1..Len(dash) :
          (/\ now' = now /\ lastCallback'.cb = "dash.connect"
           /\ Len(dash'[i].socks) = Len(dash[i].socks) + 1)
             => (dash'[i].sum = 0 /\ dash'[i].count = 0) ]_vars

\* C16: a callback handed a 'tweets' message with array data notifies the
\* presentation exactly once for the batch: the map redraws once, the
\* dashboard sets the score once and updates the comment feed at most once,
\* never once per record.
C16_OneNotificationPerBatch ==
    lastCallback.arg = "tweets" =>
        /\ lastCallback.cb = "map.onmessage" => lastCallback.draws = 1
        /\ lastCallback.cb = "dash.onmessage" =>
              (lastCallback.scoreSets = 1 /\ lastCallback.commentSets <= 1)

\* C17: of every batch the dashboard counts exactly the records that the
\* map's validation turns into points: as many are added to the count as
\* the map's loop appends for the same batch.
C17_CountedIffGeoPoint ==
    [][ \A i \in 1..Len(dash) : \A k \in 1..Len(dash[i].socks), f \in DashFrames :
          (IsTweets(f) /\ DashMessage(i, k, f))
             => dash'[i].count - dash[i].count = Len(MapLoop(<<>>, f.data, 1, now).buf) ]_vars

\* C18: whatever frame or socket event they are given, the message, error
\* and close callbacks of the map and of the dashboard return normally: no
\* exception leaves them.
FeedCallbacks ==
    {"map.onmessage", "map.onerror", "map.onclose",
     "dash.onmessage", "dash.onerror", "dash.onclose"}
C18_NoExceptionEscapes ==
    lastCallback.cb \in FeedCallbacks => ~lastCallback.raised
\* The map's callback was handed the JSON null, on which msg.type raises.
C18_Witness ==
    /\ lastCallback.cb = "map.onmessage" /\ lastCallback.arg = "null"
    /\ ~lastCallback.raised

\* C19: every point of the map's buffer has a finite lat, lon and sentiment.
IsFinite(x) == x # Infinity /\ x # -Infinity
C19_PointsAreFinite ==
    \A j \in 1..Len(points) :
        IsFinite(points[j].lat) /\ IsFinite(points[j].lon) /\ IsFinite(points[j].sentiment)

\* C20: the point buffer changes only in a step of the map's message
\* callback, and an instance's sum and count only in a step of the
\* dashboard's: open, error and close events, reconnect timers, zooms,
\* effects and cleanups leave them as they were.
C20_MutatedOnlyByMessages ==
    [][ /\ points' # points => MessageStep("map.onmessage", "tweets")
        /\ \A i \in 1..Len(dash) :
              (dash'[i].sum # dash[i].sum \/ dash'[i].count # dash[i].count)
                 => MessageStep("dash.onmessage", "tweets") ]_vars
\* The close callback has just run on an instance that holds a total.
C20_Witness ==
    /\ lastCallback.cb = "dash.onclose"
    /\ \E i \in 1..Len(dash) : dash[i].count > 0 /\ dash[i].timers # <<>>

\* C21: the map stamps every point with the arrival time of its batch: right
\* after the callback handed a 'tweets' batch, every valid record of the batch
\* is in the buffer with ts = now, and the points of one batch (one ts) are
\* kept or pruned together.
InBuffer(p, pts) == \E m \in 1..Len(pts) : pts[m] = p
C21_StampedWithArrival ==
    [][ /\ \A k \in 1..Len(mapSocks), f \in MapFrames :
             (IsTweets(f) /\ MapMessage(k, f)) =>
                \A j \in 1..Len(f.data) :
                   ValidRecord(f.data[j]) => InBuffer(AsPoint(f.data[j], now), points')
        /\ \A a, b \in 1..Len(points) :
             points[a].ts = points[b].ts =>
                (InBuffer(points[a], points') <=> InBuffer(points[b], points')) ]_vars

\* C22: the score a mounted dashboard displays never lags behind its running
\* totals: it is sum / count whenever count > 0 and the initial 0 while
\* count = 0.
C22_ScoreNeverLags ==
    \A i \in 1..Len(dash) :
        dash[i].mounted =>
           IF dash[i].count > 0
           THEN dash[i].score.num * dash[i].count = dash[i].sum * dash[i].score.den
           ELSE dash[i].score = NewInstance.score

\* C23: the live comment feed never holds more than 50 entries and is the
\* most recent 50 of the comments accepted so far, oldest first: a batch in
\* which n comments are accepted leaves min(50, old length + n) entries, the
\* n new ones last, ahead of them the newest of the old ones in their order.
\* Under the long feed the n-th comment accepted has a text of n characters,
\* which tells the entries apart.
Min(a, b) == IF a < b THEN a ELSE b
Newest(q, m) == SubSeq(q, Len(q) - m + 1, Len(q))
C23_FeedKeepsLast50 ==
    [][ \A i \in 1..Len(dash) :
          /\ Len(dash'[i].comments) <= 50
          /\ (dash[i].mounted /\ MessageStep("dash.onmessage", "tweets")) =>
                LET n == lastCallback'.commentSets
                    kept == Len(dash'[i].comments) - n
                IN /\ Len(dash'[i].comments) = Min(50, Len(dash[i].comments) + n)
                   /\ SubSeq(dash'[i].comments, 1, kept) = Newest(dash[i].comments, kept)
                   /\ \A j \in 1..n :
                         dash'[i].comments[kept + j].text = dash[i].count + j ]_vars
\* The feed is full and its oldest comments have been dropped: 50 entries,
\* the first of them the third comment accepted.
C23_Witness ==
    \E i \in 1..Len(dash) :
        /\ dash[i].mounted /\ Len(dash[i].comments) = 50
        /\ dash[i].comments[1].text = 3 /\ dash[i].comments[50].text = 52

\* C24: in a mounted dashboard a record of a batch adds a comment exactly if
\* its sentiment_score is a number and its text is a non-empty string, and
\* counts in sum and count exactly if its sentiment_score is a number, so
\* the comments never outnumber the count.
CommentedRecord(t) == ScoredRecord(t) /\ t.text.t = "str" /\ t.text.n > 0
CommentedCount(data) ==
    SumSeq([j \in 1..Len(data) |-> IF CommentedRecord(data[j]) THEN 1 ELSE 0])
C24_CommentIffScoredText ==
    [][ \A i \in 1..Len(dash) : \A k \in 1..Len(dash[i].socks), f \in DashFrames :
          (IsTweets(f) /\ dash[i].mounted /\ DashMessage(i, k, f)) =>
             /\ Len(dash'[i].comments) = Len(dash[i].comments) + CommentedCount(f.data)
             /\ dash'[i].count = dash[i].count + ScoreCount(f.data)
             /\ dash'[i].sum = dash[i].sum + ScoreSum(f.data)
             /\ Len(dash'[i].comments) <= dash'[i].count ]_vars

\* C25: each time the dashboard view is opened the aggregator it shows is
\* fresh (sum, count and score 0, no comments), and a record handled for an
\* instance of an earlier visit changes nothing of the instance shown.
Shown(ds) == ds[Len(ds)]
FreshAggregator(d) ==
    d.sum = 0 /\ d.count = 0 /\ d.score = [num |-> 0, den |-> 1] /\ d.comments = <<>>
C25_FreshAggregatorPerVisit ==
    [][ /\ (pageView = "globe" /\ pageView' = "dashboard") => FreshAggregator(Shown(dash'))
        /\ (Len(dash') = Len(dash) /\ \E i \in 1..Len(dash) - 1 : dash'[i] # dash[i])
              => Shown(dash') = Shown(dash) ]_vars

\* C30: a point that cannot be projected is skipped in drawing only.  Every
\* redraw, by an ingest or by a zoom, paints every other point of the buffer
\* in buffer order and raises nothing, and no step removes an unprojectable
\* point from the buffer but a prune that finds it older than 60 seconds.
Projectable(p) == projection(p.lon, p.lat) # <<>>
Redrawn == now' = now /\ lastCallback'.draws = 1
C30_UnprojectableSkippedOnly ==
    [][ /\ Redrawn => (canvas' = SelectSeq(points', Projectable) /\ ~lastCallback'.raised)
        /\ \A j \in 1..Len(points) :
              (~Projectable(points[j]) /\ ~InBuffer(points[j], points'))
                 => (PruneRan /\ Age(points[j], now) > WindowSeconds) ]_vars
\* A redraw has just painted the point that follows an unprojectable one in
\* the buffer, and the unprojectable one is still there.
C30_Witness ==
    /\ lastCallback.draws = 1 /\ drawnAt = now
    /\ Len(points) = 2 /\ ~Projectable(points[1]) /\ Projectable(points[2])
    /\ canvas = <<points[2]>>

\* A step in which the useFrame callback ran, and what it did.
FrameRan == now' = now /\ lastCallback'.cb = "globe.useFrame"
ZoomReported == FrameRan /\ lastCallback'.arg = "reported"
TweenFrame == FrameRan /\ lastCallback'.arg \in {"tween", "done"}
Animating == globe.targetDistance # NoTarget \/ globe.isResetting

\* C26: hysteresis of the switch.  A reported camera distance takes the view
\* from 'globe' to 'usa' only if it is below 1.4 and from 'usa' to 'globe'
\* only if it is above 1.9, a distance from 1.4 to 1.9 leaves the view as it
\* was, and the distance that caused a switch does not switch the new view
\* back.
C26_Hysteresis ==
    [][ ZoomReported =>
          /\ (globe.view = "globe" /\ globe'.view = "usa") => globe.d < 14000
          /\ (globe.view = "usa" /\ globe'.view = "globe") => globe.d > 19000
          /\ (globe.d >= 14000 /\ globe.d <= 19000) => globe'.view = globe.view
          /\ globe'.view = "usa" => ~(globe.d > 19000)
          /\ globe'.view = "globe" => ~(globe.d < 14000) ]_vars
\* A distance of exactly 1.4 has just been reported in the 'globe' view,
\* which it left as it was.
C26_Witness ==
    /\ lastCallback.cb = "globe.useFrame" /\ lastCallback.arg = "reported"
    /\ globe.d = 14000 /\ globe.view = "globe"

\* C27: while the camera is animated or reset (targetDistance set, or the
\* reset flag up) no frame reports a zoom change, and the view changes only
\* by the exit action.
C27_NoSwitchWhileAnimating ==
    [][ Animating =>
          /\ FrameRan => (lastCallback'.arg # "reported" /\ globe'.view = globe.view)
          /\ globe'.view # globe.view => lastCallback'.cb = "map.onExit" ]_vars
\* A frame has just run with the reset flag up and the camera below 1.4 in
\* the 'globe' view: nothing was reported, the view is still 'globe'.
C27_Witness ==
    /\ lastCallback.cb = "globe.useFrame" /\ lastCallback.arg = "skipped"
    /\ globe.isResetting /\ globe.d < 14000 /\ globe.view = "globe"

\* C28: leaving the map does not bounce back.  From the exit action until
\* the user's next zoom the view is 'globe', through the camera reset and the
\* tween; the view becomes 'usa' only by a report of a distance below 1.4
\* that a zoom of the user left the camera at.
C28_NoBounceAfterExit ==
    [][ /\ globe'.lastInput = "exit" => globe'.view = "globe"
        /\ (globe.view = "globe" /\ globe'.view = "usa")
              => (ZoomReported /\ globe.lastInput = "zoom" /\ globe.d < 14000) ]_vars
\* After an exit the reset and the tween to 2.6 are over and frames report
\* the distance again: the view is still 'globe'.
C28_Witness ==
    /\ globe.lastInput = "exit" /\ globe.view = "globe"
    /\ lastCallback.cb = "globe.useFrame" /\ lastCallback.arg = "reported"
    /\ Abs(globe.d - 26000) < 100

\* C29: every camera tween terminates.  Each frame of a tween leaves the
\* camera between where it was and the target, no further from it; a set
\* targetDistance is cleared after finitely many frames; and a frame that
\* finds no target and no reset flag reports the distance.
C29_TweenTerminates ==
    /\ [][ TweenFrame =>
             /\ Abs(globe'.d - globe.targetDistance) <= Abs(globe.d - globe.targetDistance)
             /\ (globe.d <= globe.targetDistance) => (globe.d <= globe'.d /\ globe'.d <= globe.targetDistance)
             /\ (globe.d >= globe.targetDistance) => (globe.d >= globe'.d /\ globe'.d >= globe.targetDistance) ]_vars
    /\ [][ (FrameRan /\ ~Animating) => lastCallback'.arg = "reported" ]_vars
    /\ (globe.targetDistance # NoTarget) ~> (globe.targetDistance = NoTarget)
\* The tween from the reset distance 3 to the exit target 2.6 has just ended,
\* within 0.01 of the target and short of it.
C29_Witness ==
    /\ lastCallback.cb = "globe.useFrame" /\ lastCallback.arg = "done"
    /\ globe.targetDistance = NoTarget /\ globe.lastInput = "exit"
    /\ globe.d > 26000 /\ globe.d < 26100

====
